---- MODULE Spec2Model ----
(***************************************************************************)
(* Model of src/fileConvertor.py: the POST /convert handler, convert_step, *)
(* the S3 helpers and the job record kept in MongoDB.                      *)
(*                                                                         *)
(* Python strings are sequences of one-character strings, so that          *)
(* os.path.basename, os.path.splitext and str.lower are computed.          *)
(* An optional value (None or a value) is a sequence of length 0 or 1.     *)
(*                                                                         *)
(* The collaborators behave as follows.  A call of insert_one/update_one   *)
(* either completes, or raises and leaves the collection unchanged.  A     *)
(* FreeCAD/Part/Mesh call either completes or raises.  s3_client calls     *)
(* either complete or raise (the helpers catch that).  jsonify of strings  *)
(* and None does not raise.  The request body is a JSON object.            *)
(***************************************************************************)
EXTENDS Integers, Sequences, FiniteSets, TLC

VARIABLES pc, req, loc, resp, ledger, audit, docs, activeDoc

vars == <<pc, req, loc, resp, ledger, audit, docs, activeDoc>>

\* ------------------------------------------------------------ bounds ----
NumThreads == 2      \* worker threads of the HTTP layer
MaxJobs == 2         \* job records inserted in one run

Thread == 1..NumThreads

\* ----------------------------------------------------------- strings ----
Null == <<>>
Some(v) == <<v>>
IsNull(o) == o = <<>>
Val(o) == o[1]

\* Python truthiness of None-or-str: `not x` is true for None and "".
Truthy(o) == o # <<>> /\ o[1] # <<>>

UpperChars == <<"A","B","C","D","E","F","G","H","I","J","K","L","M",
                "N","O","P","Q","R","S","T","U","V","W","X","Y","Z">>
LowerChars == <<"a","b","c","d","e","f","g","h","i","j","k","l","m",
                "n","o","p","q","r","s","t","u","v","w","x","y","z">>

LowerChar(c) ==
    IF \E i \in 1..26 : UpperChars[i] = c
    THEN LowerChars[CHOOSE i \in 1..26 : UpperChars[i] = c]
    ELSE c

\* str.lower()
Lower(s) == [i \in 1..Len(s) |-> LowerChar(s[i])]

\* s.rfind(c), 1-based, 0 when absent
RFind(s, c) ==
    IF \E i \in 1..Len(s) : s[i] = c
    THEN CHOOSE i \in 1..Len(s) : s[i] = c /\ \A j \in (i+1)..Len(s) : s[j] # c
    ELSE 0

\* os.path.basename (posixpath): everything after the last "/"
Basename(p) == SubSeq(p, RFind(p, "/") + 1, Len(p))

\* Index of the dot at which os.path.splitext splits, 0 when it does not:
\* the last dot, if it lies after the last "/" and is preceded, inside the
\* last component, by a character that is not a dot.
SplitDot(p) ==
    LET sep == RFind(p, "/")
        dot == RFind(p, ".")
    IN  IF dot > sep /\ \E k \in (sep+1)..(dot-1) : p[k] # "."
        THEN dot ELSE 0

\* os.path.splitext(p)[0] and [1]
SplitextRoot(p) == IF SplitDot(p) = 0 THEN p ELSE SubSeq(p, 1, SplitDot(p) - 1)
SplitextExt(p)  == IF SplitDot(p) = 0 THEN <<>> ELSE SubSeq(p, SplitDot(p), Len(p))

\* Variant of lines 40-54 that keeps the directory of the input path.
generate_output_file_in_dir(input_file, output_format) ==
    SplitextRoot(input_file) \o <<".">> \o Lower(output_format)

\* lines 40-54
generate_output_file(input_file, output_format) ==
    SplitextRoot(Basename(input_file)) \o <<".">> \o Lower(output_format)

\* ------------------------------------------------------- input values ----
PartStep == <<"p","a","r","t",".","s","t","e","p">>
DirMeshSTL == <<"d","/","p","a","r","t",".","S","T","L">>
GoneStep == <<"g","o","n","e",".","s","t","e","p">>

UpperObj == <<"a",".","O","B","J">>
MeshPly == <<"m",".","p","l","y">>
MeshOff == <<"m",".","o","f","f">>
NoExt == <<"n","o","e","x","t">>
NotesTxt == <<"x",".","t","x","t">>
DotStl == <<".","s","t","l">>
DotDirFile == <<"a",".","s","t","l","/","b">>

\* os.path.exists: the files present on the server's disk
ExistingFiles == {PartStep, DirMeshSTL, UpperObj, MeshPly, MeshOff, NoExt,
                  NotesTxt, DotStl, DotDirFile}
PathExists(p) == p \in ExistingFiles

FmtStl == <<"s","t","l">>
FmtOFF == <<"O","F","F">>
FmtXyz == <<"x","y","z">>
FmtSlash == <<"x","/","y">>

Org1 == <<"o","r","g","1">>
Bkt == <<"b","k","t">>

InputFileVals == {Null, Some(<<>>), Some(PartStep), Some(DirMeshSTL), Some(GoneStep)}
OutputFormatVals == {Null, Some(<<>>), Some(FmtStl), Some(FmtOFF), Some(FmtSlash)}
OrganizationVals == {Null, Some(<<>>), Some(Org1)}
BucketVals == {Null, Some(Bkt)}

\* request.json with data.get(...) applied: an absent key and a null both
\* read as None.
RequestData == [input_file : InputFileVals, output_format : OutputFormatVals,
                organization_id : OrganizationVals, s3_bucket : BucketVals]

\* --------------------------------------------------------- job ledger ----
Terminal == {"COMPLETED", "FAILED"}

\* A field of a stored document; a key the document lacks reads as None.
Field(rec, k) == IF k \in DOMAIN rec THEN rec[k] ELSE Null

\* line 228: timedelta(days=1)
ExpiryDays == 1

\* conversion_record, lines 224-230; now is the day the record is built
conversion_record(d, now) ==
    [s3_bucket |-> d.s3_bucket, status |-> "PENDING",
     organization_id |-> d.organization_id, expiryAt |-> now + ExpiryDays,
     error |-> Null]

\* Variant of update_one that stores the given fields as the whole document.
UpdateOneReplace(coll, id, set) == [coll EXCEPT ![id] = set]

\* update_one({"_id": id}, {"$set": set}) when it is applied
UpdateOne(coll, id, set) ==
    [coll EXCEPT ![id] =
        [k \in DOMAIN @ \cup DOMAIN set |-> IF k \in DOMAIN set THEN set[k] ELSE @[k]]]

\* ------------------------------------------------------- convert_step ----
MeshExtensions == { <<".","o","b","j">>, <<".","s","t","l">>,
                    <<".","p","l","y">>, <<".","o","f","f">> }

\* Variant of lines 98-101 that compares the extension as written.
IsMeshInputCaseSensitive(input_file) == SplitextExt(input_file) \in MeshExtensions

\* line 98 and 101
IsMeshInput(input_file) == Lower(SplitextExt(input_file)) \in MeshExtensions

\* Variant of lines 118-137 without the igs and brp aliases.
ExportOpNoAlias(output_format) ==
    LET f == Lower(output_format) IN
    IF f \in { <<"s","t","p">>, <<"s","t","e","p">> } THEN "exportStep"
    ELSE IF f = <<"i","g","e","s">> THEN "exportIges"
    ELSE IF f \in { <<"s","t","l">>, <<"o","b","j">>, <<"p","l","y">> } THEN "mesh.write"
    ELSE IF f = <<"b","r","e","p">> THEN "exportBrep"
    ELSE IF f = <<"o","f","f">> THEN "export_off"
    ELSE "none"

\* lines 118-137: the export operation the format token selects
ExportOp(output_format) ==
    LET f == Lower(output_format) IN
    IF f \in { <<"s","t","p">>, <<"s","t","e","p">> } THEN "exportStep"
    ELSE IF f \in { <<"i","g","e","s">>, <<"i","g","s">> } THEN "exportIges"
    ELSE IF f \in { <<"s","t","l">>, <<"o","b","j">>, <<"p","l","y">> } THEN "mesh.write"
    ELSE IF f \in { <<"b","r","e","p">>, <<"b","r","p">> } THEN "exportBrep"
    ELSE IF f = <<"o","f","f">> THEN "export_off"
    ELSE "none"

\* the formats exported through shape.tessellate
Tessellates(op) == op \in {"mesh.write", "export_off"}

\* FreeCAD.newDocument: a document under a name no open document has
NewDocumentName(ds) == CHOOSE n \in 1..(Cardinality(ds) + 1) : n \notin ds

\* Variant of closeDocument that leaves the document open.
CloseDocumentNoop(ds, name) == ds

\* FreeCAD.closeDocument(name)
CloseDocument(ds, name) == ds \ {name}

\* ------------------------------------------------------------- state ----
InitLoc ==
    [output_file |-> <<>>, result |-> 0, success |-> FALSE, csRet |-> FALSE,
     caught |-> Null, linkBound |-> FALSE, link |-> Null, exc |-> Null,
     loadOp |-> "none", reconstructed |-> FALSE, exportOps |-> {},
     uploadKey |-> Null, uploadResult |-> "none", presignKey |-> Null,
     docsAtCall |-> 0, csReturned |-> FALSE, ledgerRaised |-> FALSE,
     terminalIssued |-> 0, exportFailed |-> FALSE, doc |-> 0]

NoData == [input_file |-> Null, output_format |-> Null,
           organization_id |-> Null, s3_bucket |-> Null]

NoResp == [code |-> 0, error |-> Null, output_file |-> Null,
           conversion_id |-> 0, s3_download_link |-> Null]

Init ==
    /\ pc = [t \in Thread |-> "idle"]
    /\ req = [t \in Thread |-> NoData]
    /\ loc = [t \in Thread |-> InitLoc]
    /\ resp = [t \in Thread |-> NoResp]
    /\ ledger = <<>>
    /\ audit = <<>>
    /\ docs = {}
    /\ activeDoc = 0

Kernel == <<docs, activeDoc>>

\* ---------------------------------------------------- handler: entry ----
\* Variant of the check of line 217 that forgets organization_id.
MissingParametersNoOrg(d) ==
    ~Truthy(d.input_file) \/ ~Truthy(d.output_format)

\* line 217
MissingParameters(d) ==
    ~Truthy(d.input_file) \/ ~Truthy(d.output_format) \/ ~Truthy(d.organization_id)

ErrorResp(code, text, id) ==
    [code |-> code, error |-> Some(text), output_file |-> Null,
     conversion_id |-> id, s3_download_link |-> Null]

\* lines 211-218: a request that fails validation
Reject(t) ==
    /\ pc[t] = "idle"
    /\ \E d \in RequestData :
        /\ MissingParameters(d)
        /\ req' = [req EXCEPT ![t] = d]
    /\ resp' = [resp EXCEPT ![t] = ErrorResp(400, "Missing required parameters", 0)]
    /\ pc' = [pc EXCEPT ![t] = "returned"]
    /\ UNCHANGED <<loc, ledger, audit, docs, activeDoc>>

\* lines 211-221: a request that passes validation
Accept(t) ==
    /\ pc[t] = "idle"
    /\ Len(ledger) < MaxJobs
    /\ \E d \in RequestData :
        /\ ~MissingParameters(d)
        /\ req' = [req EXCEPT ![t] = d]
        /\ loc' = [loc EXCEPT ![t].output_file =
                      generate_output_file(Val(d.input_file), Val(d.output_format))]
    /\ pc' = [pc EXCEPT ![t] = "insert"]
    /\ UNCHANGED <<resp, ledger, audit, docs, activeDoc>>

\* Variant of lines 231-232 in which every insertion yields the same id.
InsertSharedId(t) ==
    /\ pc[t] = "insert"
    /\ ledger' = IF ledger = <<>> THEN <<conversion_record(req[t], 0)>> ELSE ledger
    /\ audit' = IF audit = <<>> THEN << <<"PENDING">> >> ELSE audit
    /\ loc' = [loc EXCEPT ![t].result = 1]
    /\ pc' = [pc EXCEPT ![t] = "processing"]
    /\ UNCHANGED <<req, resp, docs, activeDoc>>

\* lines 231-232: insert_one
Insert(t) ==
    /\ pc[t] = "insert"
    /\ \E ok \in BOOLEAN :
        IF ok
        THEN /\ ledger' = Append(ledger, conversion_record(req[t], Len(ledger)))
             /\ audit' = Append(audit, <<"PENDING">>)
             /\ loc' = [loc EXCEPT ![t].result = Len(ledger) + 1]
             /\ pc' = [pc EXCEPT ![t] = "processing"]
        ELSE /\ loc' = [loc EXCEPT ![t].exc = Some("LedgerError"),
                                        ![t].ledgerRaised = TRUE]
             /\ pc' = [pc EXCEPT ![t] = "except"]
             /\ UNCHANGED <<ledger, audit>>
    /\ UNCHANGED <<req, resp, docs, activeDoc>>

\* One update_one call of request t: it is issued, and applied when ok.
\* audit[id] lists the statuses written to record id.
IssueUpdate(t, set, ok) ==
    LET id == loc[t].result IN
    /\ ledger' = IF ok THEN UpdateOne(ledger, id, set) ELSE ledger
    /\ audit' = IF ok THEN [audit EXCEPT ![id] = Append(@, set.status)] ELSE audit

\* The locals of request t after it issued an update: the terminal
\* updates it has issued are counted; raised carries the driver's error.
Issued(t, set, raised) ==
    [loc EXCEPT ![t].terminalIssued = @ + (IF set.status \in Terminal THEN 1 ELSE 0),
                ![t].ledgerRaised = @ \/ raised,
                ![t].exc = IF raised THEN Some("LedgerError") ELSE @]

\* An update followed by the statement after it; a raising update enters
\* the except branch of line 290 with the driver's error.
UpdateThen(t, set, next) ==
    \E ok \in BOOLEAN :
        /\ IssueUpdate(t, set, ok)
        /\ loc' = Issued(t, set, ~ok)
        /\ pc' = [pc EXCEPT ![t] = IF ok THEN next ELSE "except"]

\* An update followed by `return jsonify(...), 500`
UpdateThenFail(t, text) ==
    \E ok \in BOOLEAN :
        /\ IssueUpdate(t, [status |-> "FAILED", error |-> Some(text)], ok)
        /\ loc' = Issued(t, [status |-> "FAILED"], ~ok)
        /\ IF ok
           THEN /\ pc' = [pc EXCEPT ![t] = "returned"]
                /\ resp' = [resp EXCEPT ![t] = ErrorResp(500, text, loc[t].result)]
           ELSE /\ pc' = [pc EXCEPT ![t] = "except"]
                /\ UNCHANGED resp

\* lines 235-238
SetProcessing(t) ==
    /\ pc[t] = "processing"
    /\ UpdateThen(t, [status |-> "PROCESSING"], "convert")
    /\ UNCHANGED <<req, resp, docs, activeDoc>>

\* ------------------------------------------------------- convert_step ----
\* An exception raised inside the try of convert_step: lines 142-144 turn
\* it into `return False`, and the finally clause runs next.
Caught(t, name) ==
    /\ loc' = [loc EXCEPT ![t].csRet = FALSE, ![t].caught = Some(name)]
    /\ pc' = [pc EXCEPT ![t] = "cs_finally"]

\* line 241 (the call) and lines 87-89
CsStart(t) ==
    /\ pc[t] = "convert"
    /\ IF PathExists(Val(req[t].input_file))
       THEN /\ loc' = [loc EXCEPT ![t].docsAtCall = Cardinality(docs)]
            /\ pc' = [pc EXCEPT ![t] = "cs_doc"]
       ELSE /\ loc' = [loc EXCEPT ![t].docsAtCall = Cardinality(docs),
                                  ![t].csRet = FALSE,
                                  ![t].caught = Some("FileNotFoundError")]
            /\ pc' = [pc EXCEPT ![t] = "cs_finally"]
    /\ UNCHANGED <<req, resp, ledger, audit, docs, activeDoc>>

\* lines 93-94
CsDoc(t) ==
    /\ pc[t] = "cs_doc"
    /\ IF activeDoc = 0
       THEN \E ok \in BOOLEAN :
              IF ok
              THEN /\ docs' = docs \cup {NewDocumentName(docs)}
                   /\ activeDoc' = NewDocumentName(docs)
                   /\ pc' = [pc EXCEPT ![t] = "cs_load"]
                   /\ loc' = [loc EXCEPT ![t].doc = NewDocumentName(docs)]
              ELSE /\ Caught(t, "KernelError")
                   /\ UNCHANGED Kernel
       ELSE /\ pc' = [pc EXCEPT ![t] = "cs_load"]
            /\ loc' = [loc EXCEPT ![t].doc = activeDoc]
            /\ UNCHANGED <<docs, activeDoc>>
    /\ UNCHANGED <<req, resp, ledger, audit>>

\* lines 98-114
CsLoad(t) ==
    /\ pc[t] = "cs_load"
    /\ IF IsMeshInput(Val(req[t].input_file))
       THEN \E outcome \in {"ok", "read_fails", "reconstruct_fails"} :
              IF outcome = "ok"
              THEN /\ loc' = [loc EXCEPT ![t].loadOp = "mesh", ![t].reconstructed = TRUE]
                   /\ pc' = [pc EXCEPT ![t] = "cs_export"]
              ELSE /\ loc' = [loc EXCEPT ![t].loadOp = "mesh",
                                         ![t].reconstructed = FALSE,
                                         ![t].csRet = FALSE,
                                         ![t].caught = Some("KernelError")]
                   /\ pc' = [pc EXCEPT ![t] = "cs_finally"]
       ELSE \E ok \in BOOLEAN :
              IF ok
              THEN /\ loc' = [loc EXCEPT ![t].loadOp = "shape"]
                   /\ pc' = [pc EXCEPT ![t] = "cs_export"]
              ELSE /\ loc' = [loc EXCEPT ![t].loadOp = "shape",
                                         ![t].csRet = FALSE,
                                         ![t].caught = Some("KernelError")]
                   /\ pc' = [pc EXCEPT ![t] = "cs_finally"]
    /\ UNCHANGED <<req, resp, ledger, audit, docs, activeDoc>>

\* lines 117-140, and export_off (lines 150-172), which catches and only
\* prints whatever its writing raises
CsExport(t) ==
    LET op == ExportOp(Val(req[t].output_format)) IN
    /\ pc[t] = "cs_export"
    /\ IF op = "none"
       THEN Caught(t, "ValueError")
       ELSE \E outcome \in {"ok", "tessellate_fails", "write_fails"} :
              /\ outcome = "tessellate_fails" => Tessellates(op)
              /\ IF outcome = "tessellate_fails"
                 THEN /\ loc' = [loc EXCEPT ![t].csRet = FALSE,
                                            ![t].caught = Some("KernelError"),
                                            ![t].exportFailed = TRUE]
                      /\ pc' = [pc EXCEPT ![t] = "cs_finally"]
                 ELSE IF outcome = "write_fails" /\ op # "export_off"
                 THEN /\ loc' = [loc EXCEPT ![t].csRet = FALSE,
                                            ![t].caught = Some("KernelError"),
                                            ![t].exportFailed = TRUE,
                                            ![t].exportOps = @ \cup {op}]
                      /\ pc' = [pc EXCEPT ![t] = "cs_finally"]
                 ELSE /\ loc' = [loc EXCEPT ![t].csRet = TRUE,
                                            ![t].exportFailed = (outcome = "write_fails"),
                                            ![t].exportOps = @ \cup {op}]
                      /\ pc' = [pc EXCEPT ![t] = "cs_finally"]
    /\ UNCHANGED <<req, resp, ledger, audit, docs, activeDoc>>

\* lines 145-148, then the return to line 241; closeDocument raising in the
\* finally clause replaces the return by that exception
CsFinally(t) ==
    /\ pc[t] = "cs_finally"
    /\ IF activeDoc # 0
       THEN \E ok \in BOOLEAN :
              IF ok
              THEN /\ docs' = CloseDocument(docs, activeDoc)
                   /\ activeDoc' = 0
                   /\ loc' = [loc EXCEPT ![t].success = loc[t].csRet,
                                              ![t].csReturned = TRUE]
                   /\ pc' = [pc EXCEPT ![t] = "converted"]
              ELSE /\ loc' = [loc EXCEPT ![t].exc = Some("KernelError")]
                   /\ pc' = [pc EXCEPT ![t] = "except"]
                   /\ UNCHANGED Kernel
       ELSE /\ loc' = [loc EXCEPT ![t].success = loc[t].csRet,
                                  ![t].csReturned = TRUE]
            /\ pc' = [pc EXCEPT ![t] = "converted"]
            /\ UNCHANGED Kernel
    /\ UNCHANGED <<req, resp, ledger, audit>>

\* ------------------------------------------- handler: after conversion ----
\* lines 246 and 248: the text recorded when convert_step returned False;
\* the exception convert_step caught (cause) was only printed, line 143
ConversionErrorText(cause) == "Conversion failed"

\* lines 243-248
ConversionFailed(t) ==
    /\ pc[t] = "converted"
    /\ ~loc[t].success
    /\ UpdateThenFail(t, ConversionErrorText(loc[t].caught))
    /\ UNCHANGED <<req, docs, activeDoc>>

\* line 257: the statement that follows the UPLOADING update
AfterUploading(bucket) == IF Truthy(bucket) THEN "upload" ELSE "complete"

\* Variant of lines 250-254 that goes on without writing UPLOADING.
SetUploadingSkipped(t) ==
    /\ pc[t] = "converted"
    /\ loc[t].success
    /\ pc' = [pc EXCEPT ![t] = AfterUploading(req[t].s3_bucket)]
    /\ UNCHANGED <<req, loc, resp, ledger, audit, docs, activeDoc>>

\* lines 250-257
SetUploading(t) ==
    /\ pc[t] = "converted"
    /\ loc[t].success
    /\ UpdateThen(t, [status |-> "UPLOADING"], AfterUploading(req[t].s3_bucket))
    /\ UNCHANGED <<req, resp, docs, activeDoc>>

\* Variant of lines 183-184 that defaults to the base name of the path.
ObjectNameBasename(file_name, object_name) ==
    IF IsNull(object_name) THEN Basename(file_name) ELSE Val(object_name)

\* lines 183-184: the object key of an upload
ObjectName(file_name, object_name) ==
    IF IsNull(object_name) THEN file_name ELSE Val(object_name)

\* Variant of line 259 that ignores the result of upload_to_s3.
AfterUploadIgnored(upload_success) == "presign"

\* line 259: the statement that follows upload_to_s3
AfterUpload(upload_success) == IF upload_success THEN "presign" ELSE "upload_failed"

\* line 258 and upload_to_s3 (lines 174-201): every exception of
\* s3_client.upload_file is caught and reported as False; the bucket's
\* contents are outside the process and only the key used is recorded
Upload(t) ==
    /\ pc[t] = "upload"
    /\ \E upload_success \in BOOLEAN :
        /\ loc' = [loc EXCEPT
                     ![t].uploadKey = Some(ObjectName(loc[t].output_file, Null)),
                     ![t].uploadResult = IF upload_success THEN "ok" ELSE "failed"]
        /\ pc' = [pc EXCEPT ![t] = AfterUpload(upload_success)]
    /\ UNCHANGED <<req, resp, ledger, audit, docs, activeDoc>>

\* lines 259-264
UploadFailed(t) ==
    /\ pc[t] = "upload_failed"
    /\ UpdateThenFail(t, "S3 upload failed")
    /\ UNCHANGED <<req, docs, activeDoc>>

\* the URL s3_client.generate_presigned_url returns
PresignedUrl(bucket_name, object_name) ==
    <<"u","r","l",":">> \o bucket_name \o <<"/">> \o object_name

\* Variant of lines 267-275 that does not test the link for None.
PresignUnchecked(t) ==
    LET s3_object_name == Basename(loc[t].output_file) IN
    /\ pc[t] = "presign"
    /\ \E ok \in BOOLEAN :
        loc' = [loc EXCEPT
                  ![t].presignKey = Some(s3_object_name),
                  ![t].linkBound = TRUE,
                  ![t].link = IF ok
                              THEN Some(PresignedUrl(Val(req[t].s3_bucket), s3_object_name))
                              ELSE Null]
    /\ pc' = [pc EXCEPT ![t] = "complete"]
    /\ UNCHANGED <<req, resp, ledger, audit, docs, activeDoc>>

\* lines 267-268 and generate_presigned_url (lines 56-74): None on any error
Presign(t) ==
    LET s3_object_name == Basename(loc[t].output_file) IN
    /\ pc[t] = "presign"
    /\ \E ok \in BOOLEAN :
        /\ loc' = [loc EXCEPT
                     ![t].presignKey = Some(s3_object_name),
                     ![t].linkBound = TRUE,
                     ![t].link = IF ok
                                 THEN Some(PresignedUrl(Val(req[t].s3_bucket), s3_object_name))
                                 ELSE Null]
        /\ pc' = [pc EXCEPT ![t] = IF ok THEN "complete" ELSE "presign_failed"]
    /\ UNCHANGED <<req, resp, ledger, audit, docs, activeDoc>>

\* lines 270-275
PresignFailed(t) ==
    /\ pc[t] = "presign_failed"
    /\ UpdateThenFail(t, "Failed to generate S3 download link")
    /\ UNCHANGED <<req, docs, activeDoc>>

\* lines 278-288 when s3_download_link was assigned
Complete(t) ==
    /\ pc[t] = "complete"
    /\ loc[t].linkBound
    /\ \E ok \in BOOLEAN :
        /\ IssueUpdate(t, [status |-> "COMPLETED", s3_link |-> loc[t].link], ok)
        /\ loc' = Issued(t, [status |-> "COMPLETED"], ~ok)
        /\ IF ok
           THEN /\ pc' = [pc EXCEPT ![t] = "returned"]
                /\ resp' = [resp EXCEPT ![t] =
                              [code |-> 200, error |-> Null,
                               output_file |-> Some(loc[t].output_file),
                               conversion_id |-> loc[t].result,
                               s3_download_link |-> loc[t].link]]
           ELSE /\ pc' = [pc EXCEPT ![t] = "except"]
                /\ UNCHANGED resp
    /\ UNCHANGED <<req, docs, activeDoc>>

\* line 280 when s3_download_link was never assigned: evaluating the
\* argument raises UnboundLocalError before update_one is called
CompleteUnbound(t) ==
    /\ pc[t] = "complete"
    /\ ~loc[t].linkBound
    /\ loc' = [loc EXCEPT ![t].exc = Some("UnboundLocalError")]
    /\ pc' = [pc EXCEPT ![t] = "except"]
    /\ UNCHANGED <<req, resp, ledger, audit, docs, activeDoc>>

\* Variant of line 292 under which the except branch never updates.
HasResultNever(l) == FALSE

\* line 292: 'result' in locals()
HasResult(l) == l.result # 0

\* lines 290-297; an update_one that raises here leaves the handler as an
\* exception, which Flask answers with its own 500 page
Except(t) ==
    /\ pc[t] = "except"
    /\ IF HasResult(loc[t])
       THEN \E ok \in BOOLEAN :
              /\ IssueUpdate(t, [status |-> "FAILED", error |-> loc[t].exc], ok)
              /\ loc' = [loc EXCEPT ![t].terminalIssued = @ + 1,
                                     ![t].ledgerRaised = @ \/ ~ok]
              /\ IF ok
                 THEN /\ pc' = [pc EXCEPT ![t] = "returned"]
                      /\ resp' = [resp EXCEPT ![t] = ErrorResp(500, Val(loc[t].exc), 0)]
                 ELSE /\ pc' = [pc EXCEPT ![t] = "raised"]
                      /\ resp' = [resp EXCEPT ![t] = ErrorResp(500, "Internal Server Error", 0)]
       ELSE /\ pc' = [pc EXCEPT ![t] = "returned"]
            /\ resp' = [resp EXCEPT ![t] = ErrorResp(500, Val(loc[t].exc), 0)]
            /\ UNCHANGED <<loc, ledger, audit>>
    /\ UNCHANGED <<req, docs, activeDoc>>

\* The response leaves the process; the handler's locals are gone and the
\* thread waits for its next request.
Deliver(t) ==
    /\ pc[t] \in {"returned", "raised"}
    /\ pc' = [pc EXCEPT ![t] = "idle"]
    /\ req' = [req EXCEPT ![t] = NoData]
    /\ loc' = [loc EXCEPT ![t] = InitLoc]
    /\ resp' = [resp EXCEPT ![t] = NoResp]
    /\ UNCHANGED <<ledger, audit, docs, activeDoc>>

\* ------------------------------------------------------ specification ----
\* Requests processed one at a time: a single worker thread takes every
\* request, and takes the next one only after it has answered the last.
Worker == CHOOSE t \in Thread : \A u \in Thread : t <= u

SerialReject(t) == t = Worker /\ Reject(t)

SerialAccept(t) == t = Worker /\ Accept(t)

Next ==
    \E t \in Thread :
        \/ SerialReject(t)
        \/ SerialAccept(t)
        \/ Insert(t)
        \/ SetProcessing(t)
        \/ CsStart(t)
        \/ CsDoc(t)
        \/ CsLoad(t)
        \/ CsExport(t)
        \/ CsFinally(t)
        \/ ConversionFailed(t)
        \/ SetUploading(t)
        \/ Upload(t)
        \/ UploadFailed(t)
        \/ Presign(t)
        \/ PresignFailed(t)
        \/ Complete(t)
        \/ CompleteUnbound(t)
        \/ Except(t)
        \/ Deliver(t)

Spec == Init /\ [][Next]_vars

\* ----------------------------------------- the helpers called directly ----
TokStp == <<"s","t","p">>
TokStep == <<"s","t","e","p">>
TokIges == <<"i","g","e","s">>
TokIgs == <<"i","g","s">>
TokObj == <<"o","b","j">>
TokPly == <<"p","l","y">>
TokBrep == <<"b","r","e","p">>
TokBrp == <<"b","r","p">>
TokOff == <<"o","f","f">>
TokUpperSTP == <<"S","T","P">>
TokMixedIgs == <<"I","g","S">>
TokStls == <<"s","t","l","s">>

\* output_format arguments: every token of lines 118-133, some of them in
\* other letter cases, and tokens no branch accepts
CallFormats ==
    {TokStp, TokStep, TokIges, TokIgs, FmtStl, TokObj, TokPly, TokBrep, TokBrp,
     TokOff, FmtOFF, TokUpperSTP, TokMixedIgs, FmtXyz, FmtSlash, TokStls, <<>>}

\* input_file arguments
CallFiles == ExistingFiles \cup {GoneStep}

PartStl == <<"p","a","r","t",".","s","t","l">>
DirPartStl == <<"d","/","p","a","r","t",".","s","t","l">>
DeepOff == <<"a","/","b","/","m",".","o","f","f">>

\* file_name arguments of upload_to_s3
UploadPaths == {PartStl, DirPartStl, DeepOff}

\* where a direct call of a helper has come back to its caller
CallBoundary == {"idle", "converted", "except", "presign", "upload_failed"}

\* convert_step(input_file, output_file, output_format), line 76
CallConvertStep(t) ==
    /\ t = Worker
    /\ pc[t] \in CallBoundary
    /\ \E f \in CallFiles, fmt \in CallFormats :
        /\ req' = [req EXCEPT ![t] = [NoData EXCEPT !.input_file = Some(f),
                                                    !.output_format = Some(fmt)]]
        /\ loc' = [loc EXCEPT ![t] =
                      [InitLoc EXCEPT !.output_file = generate_output_file(f, fmt)]]
    /\ pc' = [pc EXCEPT ![t] = "convert"]
    /\ UNCHANGED <<resp, ledger, audit, docs, activeDoc>>

\* upload_to_s3(file_name, bucket_name), line 174
CallUpload(t) ==
    /\ t = Worker
    /\ pc[t] \in CallBoundary
    /\ \E file_name \in UploadPaths :
        loc' = [loc EXCEPT ![t] = [InitLoc EXCEPT !.output_file = file_name]]
    /\ req' = [req EXCEPT ![t] = [NoData EXCEPT !.s3_bucket = Some(Bkt)]]
    /\ pc' = [pc EXCEPT ![t] = "upload"]
    /\ UNCHANGED <<resp, ledger, audit, docs, activeDoc>>

NextCalls ==
    \E t \in Thread :
        \/ CallConvertStep(t)
        \/ CallUpload(t)
        \/ CsStart(t)
        \/ CsDoc(t)
        \/ CsLoad(t)
        \/ CsExport(t)
        \/ CsFinally(t)
        \/ Upload(t)

SpecCalls == Init /\ [][NextCalls]_vars

\* ------------------------------------------------ concurrent requests ----
\* app.run (line 300) serves each request on a thread of its own, so the
\* handlers of several requests interleave at every call they make. Each
\* thread serves one request of a burst of NumThreads requests.

\* The requests sent concurrently: one with a bucket, one without.
ConcRequests ==
    { [input_file |-> Some(PartStep), output_format |-> Some(FmtStl),
       organization_id |-> Some(Org1), s3_bucket |-> Some(Bkt)],
      [input_file |-> Some(DirMeshSTL), output_format |-> Some(FmtOFF),
       organization_id |-> Some(Org1), s3_bucket |-> Null] }

ConcAccept(t) == Accept(t) /\ req'[t] \in ConcRequests

\* line 93: the test of FreeCAD.ActiveDocument, a step of its own when
\* other threads run between it and line 94
CsDocCheck(t) ==
    /\ pc[t] = "cs_doc"
    /\ IF activeDoc = 0
       THEN /\ pc' = [pc EXCEPT ![t] = "cs_doc_new"]
            /\ UNCHANGED loc
       ELSE /\ pc' = [pc EXCEPT ![t] = "cs_load"]
            /\ loc' = [loc EXCEPT ![t].doc = activeDoc]
    /\ UNCHANGED <<req, resp, ledger, audit, docs, activeDoc>>

\* line 94: newDocument opens a document and makes it the active one
CsDocNew(t) ==
    /\ pc[t] = "cs_doc_new"
    /\ \E ok \in BOOLEAN :
          IF ok
          THEN /\ docs' = docs \cup {NewDocumentName(docs)}
               /\ activeDoc' = NewDocumentName(docs)
               /\ pc' = [pc EXCEPT ![t] = "cs_load"]
               /\ loc' = [loc EXCEPT ![t].doc = NewDocumentName(docs)]
          ELSE /\ Caught(t, "KernelError")
               /\ UNCHANGED Kernel
    /\ UNCHANGED <<req, resp, ledger, audit>>

NextConc ==
    \E t \in Thread :
        \/ ConcAccept(t)
        \/ Insert(t)
        \/ SetProcessing(t)
        \/ CsStart(t)
        \/ CsDocCheck(t)
        \/ CsDocNew(t)
        \/ CsLoad(t)
        \/ CsExport(t)
        \/ CsFinally(t)
        \/ ConversionFailed(t)
        \/ SetUploading(t)
        \/ Upload(t)
        \/ UploadFailed(t)
        \/ Presign(t)
        \/ PresignFailed(t)
        \/ Complete(t)
        \/ CompleteUnbound(t)
        \/ Except(t)

SpecConc == Init /\ [][NextConc]_vars

\* ------------------------------------------------------------ claims ----
\* The handler has left request t: by a return statement, or by an
\* exception that escaped it.
Finished(t) == pc[t] \in {"returned", "raised"}

Valid(d) == Truthy(d.input_file) /\ Truthy(d.output_format) /\ Truthy(d.organization_id)

Job(t) == ledger[loc[t].result]

Writes(t) == audit[loc[t].result]

\* C1: a valid request without s3_bucket whose conversion succeeds (and
\* whose ledger calls all complete) is answered 200 with output_file =
\* <input base name>.<lowercased format>, its record ends COMPLETED, the
\* link is null in the response and in the record, and no unassigned
\* variable is referenced.
C1_NoBucketSuccessCompletes ==
    \A t \in Thread :
        (Finished(t) /\ Valid(req[t]) /\ ~Truthy(req[t].s3_bucket)
            /\ loc[t].success /\ ~loc[t].ledgerRaised)
        => /\ resp[t].code = 200
           /\ resp[t].output_file =
                Some(SplitextRoot(Basename(Val(req[t].input_file)))
                        \o <<".">> \o Lower(Val(req[t].output_format)))
           /\ Job(t).status = "COMPLETED"
           /\ resp[t].s3_download_link = Null
           /\ Field(Job(t), "s3_link") = Null
           /\ loc[t].exc # Some("UnboundLocalError")

\* C2: for a request with s3_bucket in which conversion, upload and presign
\* succeed and every ledger call completes, the statuses written to its
\* record are exactly PENDING, PROCESSING, UPLOADING, COMPLETED and the
\* response is 200.
C2_LifecycleWithBucket ==
    \A t \in Thread :
        (Finished(t) /\ Truthy(req[t].s3_bucket) /\ loc[t].success
            /\ loc[t].uploadResult = "ok" /\ loc[t].link # Null
            /\ ~loc[t].ledgerRaised)
        => /\ Writes(t) = <<"PENDING", "PROCESSING", "UPLOADING", "COMPLETED">>
           /\ resp[t].code = 200

C2_Witness ==
    \E t \in Thread :
        /\ pc[t] = "returned" /\ Truthy(req[t].s3_bucket)
        /\ loc[t].uploadResult = "ok" /\ loc[t].link # Null
        /\ resp[t].code = 200

LegalTransitions ==
    { <<"PENDING", "PROCESSING">>, <<"PROCESSING", "UPLOADING">>,
      <<"UPLOADING", "COMPLETED">>, <<"PROCESSING", "FAILED">>,
      <<"UPLOADING", "FAILED">> }

\* C3: every change of a job's status, in every execution including those
\* where a ledger write raises and the except branch runs, is one of the
\* five legal transitions.
C3_OnlyLegalTransitions ==
    [][\A id \in DOMAIN ledger :
          ledger'[id].status # ledger[id].status
          => <<ledger[id].status, ledger'[id].status>> \in LegalTransitions]_vars

\* C4: at most one update setting COMPLETED or FAILED is issued for a job
\* (a job is updated by the request that inserted it).
C4_AtMostOneTerminalUpdate ==
    \A t \in Thread : loc[t].terminalIssued <= 1

\* C5: when the handler returns a response for a request whose record was
\* created, the record is COMPLETED if the response is 200 and FAILED with
\* a non-null error if it is 500; it is never left non-terminal.
C5_ResponseMatchesRecord ==
    \A t \in Thread :
        (pc[t] = "returned" /\ loc[t].result # 0)
        => /\ resp[t].code \in {200, 500}
           /\ resp[t].code = 200 => Job(t).status = "COMPLETED"
           /\ resp[t].code = 500 => (Job(t).status = "FAILED" /\ Job(t).error # Null)

C5_Witness ==
    \E t \in Thread :
        /\ pc[t] = "returned" /\ loc[t].result # 0
        /\ resp[t].code = 500
        /\ loc[t].exc = Some("UnboundLocalError")
        /\ Job(t).status = "FAILED"

\* C6: a request lacking a non-empty input_file, output_format or
\* organization_id is answered 400, and handling it performs no ledger
\* insert or update, no conversion, no upload and no presign.
C6_MissingParametersRejected ==
    /\ [](\A t \in Thread :
            (pc[t] # "idle" /\ ~Valid(req[t]))
            => (pc[t] = "returned" /\ resp[t].code = 400 /\ loc[t] = InitLoc))
    /\ [][\A t \in Thread :
            (pc[t] = "idle" /\ pc'[t] # "idle" /\ ~Valid(req'[t]))
            => UNCHANGED <<ledger, audit, docs, activeDoc>>]_vars

C6_Witness ==
    \E t \in Thread :
        /\ pc[t] = "returned" /\ resp[t].code = 400
        /\ Truthy(req[t].input_file) /\ Truthy(req[t].organization_id)
        /\ ~Truthy(req[t].output_format)
        /\ ledger # <<>>

\* C7: a valid request whose input_file does not exist is answered 500,
\* its record ends FAILED, and the error recorded and returned differs
\* from the one recorded for the other conversion failures.
C7_FileNotFoundIdentified ==
    \A t \in Thread :
        (Finished(t) /\ Valid(req[t]) /\ ~PathExists(Val(req[t].input_file))
            /\ loc[t].result # 0 /\ ~loc[t].ledgerRaised)
        => /\ resp[t].code = 500
           /\ Job(t).status = "FAILED"
           /\ Job(t).error # Null
           /\ resp[t].error = Job(t).error
           /\ Job(t).error \notin
                { Some(ConversionErrorText(Some(c))) : c \in {"KernelError", "ValueError"} }

\* C8: after upload_to_s3 reported failure, presign is never called and
\* COMPLETED is never written; when the ledger calls complete the response
\* is 500 and the record ends FAILED with the upload error.
C8_UploadFailure ==
    \A t \in Thread :
        loc[t].uploadResult = "failed"
        => /\ loc[t].presignKey = Null
           /\ ~loc[t].linkBound
           /\ \A i \in 1..Len(Writes(t)) : Writes(t)[i] # "COMPLETED"
           /\ (Finished(t) /\ ~loc[t].ledgerRaised)
              => /\ resp[t].code = 500
                 /\ Job(t).status = "FAILED"
                 /\ Job(t).error = Some("S3 upload failed")
                 /\ resp[t].error = Some("S3 upload failed")

C8_Witness ==
    \E t \in Thread :
        /\ pc[t] = "returned" /\ loc[t].uploadResult = "failed"
        /\ ~loc[t].ledgerRaised /\ resp[t].code = 500

InConvertStep == {"convert", "cs_doc", "cs_load", "cs_export", "cs_finally"}

\* C9: convert_step is left only by returning a boolean, which is false
\* whenever a step of it failed; no exception reaches the caller.
C9_ConvertStepNeverRaises ==
    /\ [][\A t \in Thread :
            pc[t] \in InConvertStep => pc'[t] \in InConvertStep \cup {"converted"}]_vars
    /\ [](\A t \in Thread :
            (loc[t].csReturned /\ loc[t].caught # Null) => ~loc[t].success)

\* C10: with requests processed one at a time, once convert_step has
\* returned no document is open, so the number of open documents is not
\* larger than when it was called.
C10_NoDocumentLeftOpen ==
    \A t \in Thread :
        loc[t].csReturned
        => /\ docs = {}
           /\ activeDoc = 0
           /\ Cardinality(docs) <= loc[t].docsAtCall

\* a conversion that found the document an earlier call failed to close,
\* and one that created its own
C10_Witness ==
    \E t \in Thread :
        /\ pc[t] = "converted" /\ loc[t].docsAtCall = 1
        /\ loc[t].loadOp # "none" /\ docs = {}

\* the export operation each token names, compared in lower case
ExportTable ==
    { <<TokStp, "exportStep">>, <<TokStep, "exportStep">>,
      <<TokIges, "exportIges">>, <<TokIgs, "exportIges">>,
      <<FmtStl, "mesh.write">>, <<TokObj, "mesh.write">>, <<TokPly, "mesh.write">>,
      <<TokBrep, "exportBrep">>, <<TokBrp, "exportBrep">>,
      <<TokOff, "export_off">> }

\* C11: the export step of convert_step, for a token that in lower case is
\* one of the ten supported ones, invokes the operation the token names and
\* no other (none at all only when the tessellation before a mesh export
\* raised); for any other token it invokes none, raises the unsupported
\* format error, and convert_step is to return false.
C11_FormatDispatch ==
    [][\A t \in Thread :
         (pc[t] = "cs_export" /\ pc'[t] # "cs_export")
         => LET tok == Lower(Val(req[t].output_format))
                ops == { p[2] : p \in { q \in ExportTable : q[1] = tok } }
            IN  IF ops # {}
                THEN /\ loc'[t].exportOps \subseteq ops
                     /\ Cardinality(ops) = 1
                     /\ loc'[t].exportOps = {}
                        => /\ ops \subseteq {"mesh.write", "export_off"}
                           /\ loc'[t].caught = Some("KernelError")
                ELSE /\ loc'[t].exportOps = {}
                     /\ loc'[t].caught = Some("ValueError")
                     /\ ~loc'[t].csRet]_vars

C11_Witness ==
    \E t \in Thread :
        /\ pc[t] = "converted"
        /\ req[t].output_format = Some(TokMixedIgs)
        /\ loc[t].exportOps = {"exportIges"}
        /\ loc[t].success

\* C12: the load step of convert_step, for an existing input whose
\* extension in lower case is .obj, .stl, .ply or .off, reads a mesh and
\* reconstructs a shape from it and does not read a shape directly; for
\* every other path it reads the shape directly and reconstructs nothing.
C12_InputClassification ==
    [][\A t \in Thread :
         (pc[t] = "cs_load" /\ pc'[t] # "cs_load")
         => IF Lower(SplitextExt(Val(req[t].input_file)))
                 \in { <<".">> \o TokObj, <<".">> \o FmtStl,
                       <<".">> \o TokPly, <<".">> \o TokOff }
            THEN /\ loc'[t].loadOp = "mesh"
                 /\ pc'[t] = "cs_export" => loc'[t].reconstructed
            ELSE /\ loc'[t].loadOp = "shape"
                 /\ ~loc'[t].reconstructed]_vars

C12_Witness ==
    \E t \in Thread :
        /\ pc[t] = "cs_export"
        /\ req[t].input_file = Some(UpperObj)
        /\ loc[t].loadOp = "mesh" /\ loc[t].reconstructed

\* C13: UPLOADING is never written to the record of a request that
\* supplied no s3_bucket.
C13_UploadingOnlyWithBucket ==
    \A id \in DOMAIN ledger :
        ~Truthy(ledger[id].s3_bucket)
        => \A i \in 1..Len(audit[id]) : audit[id][i] # "UPLOADING"

\* C14: for a request with s3_bucket, after presign returned None COMPLETED
\* is never written and, when the ledger calls complete, the job ends FAILED
\* with a 500 response; and a COMPLETED record holds the non-null URL that
\* presign returned, which is also the s3_download_link of the 200 response.
C14_PresignOutcome ==
    \A t \in Thread :
        (Truthy(req[t].s3_bucket) /\ loc[t].result # 0)
        => /\ (loc[t].linkBound /\ loc[t].link = Null)
              => /\ \A i \in 1..Len(Writes(t)) : Writes(t)[i] # "COMPLETED"
                 /\ (Finished(t) /\ ~loc[t].ledgerRaised)
                    => (resp[t].code = 500 /\ Job(t).status = "FAILED")
           /\ Job(t).status = "COMPLETED"
              => /\ Field(Job(t), "s3_link") # Null
                 /\ Field(Job(t), "s3_link") = loc[t].link
                 /\ loc[t].presignKey # Null
                 /\ loc[t].link = Some(PresignedUrl(Val(req[t].s3_bucket),
                                                    Val(loc[t].presignKey)))
                 /\ pc[t] = "returned"
                    => (resp[t].code = 200
                        /\ resp[t].s3_download_link = Field(Job(t), "s3_link"))

C14_Witness ==
    \E t \in Thread :
        /\ pc[t] = "returned" /\ Truthy(req[t].s3_bucket)
        /\ loc[t].linkBound /\ loc[t].link = Null
        /\ ~loc[t].ledgerRaised
        /\ Job(t).status = "FAILED"

\* C15 as stated: upload_to_s3 without an object name uploads under the
\* base name of the file path.
C15_KeyIsBasename ==
    \A t \in Thread :
        loc[t].uploadKey # Null
        => Val(loc[t].uploadKey) = Basename(loc[t].output_file)

\* C15 as amended: upload_to_s3 without an object name uploads under the
\* file path as given, directory components included; that is the base
\* name exactly when the path has no directory component.
C15_KeyIsFileName ==
    \A t \in Thread :
        loc[t].uploadKey # Null
        => /\ Val(loc[t].uploadKey) = loc[t].output_file
           /\ (Val(loc[t].uploadKey) = Basename(loc[t].output_file))
              <=> (RFind(loc[t].output_file, "/") = 0)

C15_Witness ==
    \E t \in Thread :
        /\ loc[t].uploadKey = Some(DirPartStl)
        /\ loc[t].uploadResult = "ok"

\* C16: convert_step returns true only if the selected export completed
\* without error, the OFF exporter included; otherwise the job is not
\* marked COMPLETED.
C16_ExportFailureReported ==
    \A t \in Thread :
        (loc[t].csReturned /\ loc[t].exportFailed)
        => /\ ~loc[t].success
           /\ loc[t].result # 0
              => \A i \in 1..Len(Writes(t)) : Writes(t)[i] # "COMPLETED"

Converting == InConvertStep \cup {"cs_doc_new"}

\* C17: with concurrent requests, the document a conversion found or
\* created is still open while that conversion is between its load and the
\* end of its export, and no document is open once every conversion that
\* started has returned.
C17_DocumentIsolation ==
    /\ \A t \in Thread :
           pc[t] \in {"cs_load", "cs_export"} => loc[t].doc \in docs
    /\ ( /\ \A t \in Thread : pc[t] \notin Converting
         /\ \A t \in Thread : loc[t].doc # 0 => loc[t].csReturned )
       => docs = {}

\* C18: under any interleaving of concurrent requests, a step changes a
\* ledger record or its status sequence only if the request taking the
\* step inserted that record, and no two requests hold the same record id.
C18_UpdatesTargetOwnRecord ==
    /\ [](\A t, u \in Thread :
            (t # u /\ loc[t].result # 0) => loc[t].result # loc[u].result)
    /\ [][\A id \in DOMAIN ledger :
            (ledger'[id] # ledger[id] \/ audit'[id] # audit[id])
            => \E t \in Thread :
                  /\ pc'[t] # pc[t]
                  /\ loc[t].result = id
                  /\ \A u \in Thread \ {t} : pc'[u] = pc[u] /\ loc[u].result # id]_vars

\* two requests in flight, both past their UPLOADING update
C18_Witness ==
    \E t, u \in Thread :
        /\ t # u
        /\ pc[t] = "presign" /\ pc[u] = "complete"
        /\ loc[t].result # 0 /\ loc[u].result # 0
        /\ Job(t).status = "UPLOADING" /\ Job(u).status = "UPLOADING"

\* C19: in every state of every job record, error is non-null exactly when
\* the status is FAILED, and s3_link is non-null only when the status is
\* COMPLETED; no step changes the s3_bucket, organization_id or expiryAt
\* of a stored record.
C19_RecordFieldsConsistent ==
    /\ [](\A id \in DOMAIN ledger :
            /\ (Field(ledger[id], "error") # Null) <=> (ledger[id].status = "FAILED")
            /\ (Field(ledger[id], "s3_link") # Null) => (ledger[id].status = "COMPLETED"))
    /\ [][\A id \in DOMAIN ledger :
            \A k \in {"s3_bucket", "organization_id", "expiryAt"} :
                /\ k \in DOMAIN ledger'[id]
                /\ ledger'[id][k] = ledger[id][k]]_vars

\* one job FAILED with its error and one COMPLETED with its link, both
\* still carrying the fields they were inserted with
C19_Witness ==
    \E i, j \in DOMAIN ledger :
        /\ ledger[i].status = "FAILED" /\ Field(ledger[i], "error") # Null
        /\ ledger[j].status = "COMPLETED" /\ Field(ledger[j], "s3_link") # Null
        /\ ledger[j].s3_bucket = Some(Bkt)
        /\ ledger[j].expiryAt = j - 1 + ExpiryDays

\* C20: in every request, the object key given to generate_presigned_url
\* is the object key under which upload_to_s3 stored the output file.
C20_PresignKeyIsUploadKey ==
    \A t \in Thread :
        loc[t].presignKey # Null
        => /\ loc[t].uploadResult = "ok"
           /\ loc[t].presignKey = loc[t].uploadKey

\* a request whose input path has a directory component reached presign
C20_Witness ==
    \E t \in Thread :
        /\ req[t].input_file = Some(DirMeshSTL)
        /\ loc[t].presignKey = Some(PartStl)
        /\ loc[t].uploadKey = Some(PartStl)
        /\ loc[t].link # Null
====
